---- MODULE Spec2Model ----
(***************************************************************************)
(* Paris sunlight map (script.js): a Leaflet map whose click handler       *)
(* refetches the streets and buildings around the clicked point and whose  *)
(* hour slider redraws the lit street quads and the building footprints.   *)
(*                                                                         *)
(* Angles are whole degrees (the code converts SunCalc's radians with      *)
(* * 180 / Math.PI before it compares them), way points lie on a unit      *)
(* grid, and tag values that the code parses are sequences of characters.  *)
(***************************************************************************)
EXTENDS Integers, Sequences, FiniteSets, TLC

\* --------------------------------------------------------------- bounds
\* Requests issued in one behaviour, the initial one included.
MaxFetches == 3
\* Longest building:height / building:levels tag value, in characters.
MaxTagLen == 3
\* Most points of a road when the scene is checked on its own.
MaxRoadLen == 3

\* ------------------------------------------------------ program constants
roadWidth == 6
MetersPerDegLat == 110540
MetersPerDegLon == 111320
LitThreshold == 20
FullTurn == 360
HalfTurn == 180
DefaultHeight == 10
LevelHeight == 3
MinFootprint == 3
MinRoadPoints == 2
InitialHour == 12

MainRoads == {"primary", "secondary", "tertiary", "residential"}

\* ------------------------------------------------------------- helpers
Abs(x) == IF x < 0 THEN -x ELSE x

Min(a, b) == IF a < b THEN a ELSE b

RECURSIVE Flatten(_)
Flatten(ss) == IF ss = <<>> THEN <<>> ELSE Head(ss) \o Flatten(Tail(ss))

\* A JavaScript property used as a condition: absent (undefined) or the
\* empty string is falsy.  Tags the code only tests are strings; tags it
\* parses are sequences of characters.
Truthy(obj, key) == key \in DOMAIN obj /\ obj[key] # ""

TruthyChars(obj, key) == key \in DOMAIN obj /\ obj[key] # <<>>

\* ------------------------------------------------------- sun position
\* The places the user can click or centre the map on; Paris is where
\* initMap sets the view.
Paris == [lat |-> "48.8566", lng |-> "2.3522"]

CapeTown == [lat |-> "-33.9249", lng |-> "18.4241"]

Quito == [lat |-> "-0.1807", lng |-> "-78.4678"]

LatLngs == {Paris, CapeTown, Quito}

\* Values of the hour slider.
Hours == {0, 9, 12, 15}

\* The places and hours the user picks while requests are in flight.
ClickPoints == {Paris, CapeTown}

SliderStops == {0, InitialHour}

\* getDateForHour: today's date at hour:00:00 UTC.  The date is fixed
\* for a behaviour, so the instant is identified by the hour.
getDateForHour(hour) == [utcHour |-> hour]

\* SunCalc.getPosition(date, lat, lon), in degrees: azimuth from south,
\* positive westward, in (-180, 180]; altitude above the horizon.  The
\* library is a pure function of its arguments; the table samples it so
\* that the sun is under, on and above the horizon and azimuthDeg lies
\* at 0, 19 and 20 degrees from a grid bearing, on both sides of north.
SunCalcGetPosition(now, lat, lon) ==
    LET h == now.utcHour IN
    CASE lat = Paris.lat /\ h = 0  -> [azimuth |-> 170,  altitude |-> -20]
      [] lat = Paris.lat /\ h = 9  -> [azimuth |-> -45,  altitude |-> 20]
      [] lat = Paris.lat /\ h = 12 -> [azimuth |-> 0,    altitude |-> 30]
      [] lat = Paris.lat /\ h = 15 -> [azimuth |-> 45,   altitude |-> 20]
      [] lat = CapeTown.lat /\ h = 0  -> [azimuth |-> 0,    altitude |-> 0]
      [] lat = CapeTown.lat /\ h = 9  -> [azimuth |-> -160, altitude |-> 25]
      [] lat = CapeTown.lat /\ h = 12 -> [azimuth |-> 180,  altitude |-> 40]
      [] lat = CapeTown.lat /\ h = 15 -> [azimuth |-> 161,  altitude |-> 25]
      [] lat = Quito.lat /\ h = 0  -> [azimuth |-> 10,   altitude |-> -30]
      [] lat = Quito.lat /\ h = 9  -> [azimuth |-> -154, altitude |-> 35]
      [] lat = Quito.lat /\ h = 12 -> [azimuth |-> -90,  altitude |-> 60]
      [] lat = Quito.lat /\ h = 15 -> [azimuth |-> -155, altitude |-> 35]

\* (sunPos.azimuth * 180 / Math.PI + 180) % 360
azimuthDeg(sunPos) == (sunPos.azimuth + HalfTurn) % FullTurn

\* ------------------------------------------------------------ geometry
\* A way point of the response: {lat, lon} on the unit grid.
Pt(la, lo) == [lat |-> la, lon |-> lo]

GridPoints == {Pt(0, 0), Pt(0, 1), Pt(1, 0), Pt(1, 1)}

\* Math.atan2(dx, dy) * 180 / Math.PI for the grid's deltas;
\* Math.atan2(0, 0) is 0.
Atan2Deg(dx, dy) ==
    CASE dx = 0  /\ dy = 0  -> 0
      [] dx = 0  /\ dy = 1  -> 0
      [] dx = 1  /\ dy = 1  -> 45
      [] dx = 1  /\ dy = 0  -> 90
      [] dx = 1  /\ dy = -1 -> 135
      [] dx = 0  /\ dy = -1 -> 180
      [] dx = -1 /\ dy = -1 -> -135
      [] dx = -1 /\ dy = 0  -> -90
      [] dx = -1 /\ dy = 1  -> -45

\* const angle = (Math.atan2(dx, dy) * 180 / Math.PI + 360) % 360
Bearing(p1, p2) ==
    LET dx == p2[2] - p1[2]
        dy == p2[1] - p1[1]
    IN  (Atan2Deg(dx, dy) + FullTurn) % FullTurn

\* diff = |angle - azimuthDeg|; minDiff = min(diff, 360 - diff)
minDiff(angle, azDeg) ==
    LET diff == Abs(angle - azDeg) IN Min(diff, FullTurn - diff)

\* A coordinate of a polygon corner: base + sign * (width / perDeg) *
\* (num / sqrt(len2)).  A way point itself has sign 0.  The quotient is
\* kept symbolic; it is 0/0, not a number, when len2 is 0.
Coord(base, sign, perDeg, num, len2) ==
    [base |-> base, sign |-> sign, width |-> roadWidth, perDeg |-> perDeg,
     num |-> num, len2 |-> len2]

Plain(base) == [base |-> base, sign |-> 0, width |-> roadWidth, perDeg |-> 1,
                num |-> 0, len2 |-> 1]

IsFiniteCoord(c) == c.sign = 0 \/ c.len2 # 0

IsFinitePolygon(poly) ==
    \A i \in 1..Len(poly.latlngs) :
        IsFiniteCoord(poly.latlngs[i][1]) /\ IsFiniteCoord(poly.latlngs[i][2])

\* The quad of lines 61-69 around the pair (p1, p2).
LitQuad(p1, p2) ==
    LET dx == p2[2] - p1[2]
        dy == p2[1] - p1[1]
        segLen2 == dx * dx + dy * dy
        lat(p, s) == Coord(p[1], s, MetersPerDegLat, dx, segLen2)
        lon(p, s) == Coord(p[2], s, MetersPerDegLon, -dy, segLen2)
    IN  << <<lat(p1, 1), lon(p1, 1)>>, <<lat(p2, 1), lon(p2, 1)>>,
           <<lat(p2, -1), lon(p2, -1)>>, <<lat(p1, -1), lon(p1, -1)>> >>

\* L.polygon(latlngs, {fillColor}): `of` is the identity of the object,
\* the forEach iteration (element index, pair index) that created it.
Polygon(latlngs, fillColor, of) ==
    [latlngs |-> latlngs, fillColor |-> fillColor, of |-> of]

\* Whether L.polygon builds the polygon or raises.  Leaflet is not part
\* of script.js: a build that checks its coordinates (rejectsNaN) raises
\* on a corner that is not a number, one that does not check accepts it.
LPolygonRaises(poly, rejectsNaN) == rejectsNaN /\ ~IsFinitePolygon(poly)

\* ------------------------------------------------------ parsing numbers
\* A JavaScript number: NaN, or the decimal fraction num / den.
NaN == [nan |-> TRUE, num |-> 0, den |-> 1]

Num(n, d) == [nan |-> FALSE, num |-> n, den |-> d]

Times(x, k) == IF x.nan THEN NaN ELSE Num(x.num * k, x.den)

Digits == {"1", "4"}

Chars == Digits \cup {".", "m"}

DigitVal(c) == IF c = "1" THEN 1 ELSE 4

RECURSIVE Pow10(_)
Pow10(k) == IF k = 0 THEN 1 ELSE 10 * Pow10(k - 1)

\* The number of digits of s from position `from` on.
RECURSIVE DigitRun(_, _)
DigitRun(s, from) ==
    IF from > Len(s) \/ s[from] \notin Digits THEN 0
    ELSE 1 + DigitRun(s, from + 1)

\* The decimal value of the n digits of s from position `from` on.
RECURSIVE DigitsValue(_, _, _)
DigitsValue(s, from, n) ==
    IF n = 0 THEN 0
    ELSE 10 * DigitsValue(s, from, n - 1) + DigitVal(s[from + n - 1])

\* parseInt(s): the leading digits, NaN when there is none.
parseInt(s) ==
    LET n == DigitRun(s, 1)
    IN  IF n = 0 THEN NaN ELSE Num(DigitsValue(s, 1, n), 1)

\* parseFloat(s): the leading digits, a point and the digits after it,
\* NaN when there is no digit.
parseFloat(s) ==
    LET n == DigitRun(s, 1)
        dot == n + 1 <= Len(s) /\ s[n + 1] = "."
        f == IF dot THEN DigitRun(s, n + 2) ELSE 0
    IN  IF n = 0 /\ f = 0 THEN NaN
        ELSE Num(DigitsValue(s, 1, n) * Pow10(f) + DigitsValue(s, n + 2, f),
                 Pow10(f))

\* Lines 108-110: the height estimate of a building.
HeightLevelsFirst(b) ==
    IF "tags" \in DOMAIN b /\ TruthyChars(b.tags, "building:levels")
    THEN Times(parseInt(b.tags["building:levels"]), LevelHeight)
    ELSE IF "tags" \in DOMAIN b /\ TruthyChars(b.tags, "building:height")
    THEN parseFloat(b.tags["building:height"])
    ELSE Num(DefaultHeight, 1)

HeightEstimate(b) ==
    IF "tags" \in DOMAIN b /\ TruthyChars(b.tags, "building:height")
    THEN parseFloat(b.tags["building:height"])
    ELSE IF "tags" \in DOMAIN b /\ TruthyChars(b.tags, "building:levels")
    THEN Times(parseInt(b.tags["building:levels"]), LevelHeight)
    ELSE Num(DefaultHeight, 1)

\* ------------------------------------------------------------- layers
\* A layer variable: undefined, or a layer group on the map with its
\* polygons.
Undefined == [set |-> FALSE, polys |-> {}]

LayerGroup(polys) == [set |-> TRUE, polys |-> polys]

\* layer.clearLayers()
clearLayers(layer) == LayerGroup({})

\* if (layer) layer.clearLayers(): what stays on the map in the group the
\* variable is about to stop referring to.
Abandon(layer) == IF layer.set THEN clearLayers(layer).polys ELSE {}

\* ---------------------------------------------------------- drawStreets
SunBelowHorizonStrict(alt) == alt < 0

\* if (altDeg <= 0) return;  and  if (alt <= 0) return;
SunBelowHorizon(alt) == alt <= 0

\* Whether the pair (p1, p2) is classified lit (lines 56-60).
IsLit(p1, p2, azDeg) == minDiff(Bearing(p1, p2), azDeg) < LitThreshold

\* The polygons one way hands to L.polygon, in order (lines 44-77).
WayQuads(way, w, azDeg) ==
    IF ~("geometry" \in DOMAIN way) THEN <<>>
    ELSE IF way.tags["highway"] \notin MainRoads THEN <<>>
    ELSE LET latlngs == [i \in 1..Len(way.geometry) |->
                            <<way.geometry[i].lat, way.geometry[i].lon>>]
         IN  IF Len(latlngs) < MinRoadPoints THEN <<>>
             ELSE LET quad(i) == Polygon(LitQuad(latlngs[i], latlngs[i + 1]),
                                         "gold", <<w, i>>)
                      lit == {i \in 1..(Len(latlngs) - 1) :
                                 IsLit(latlngs[i], latlngs[i + 1], azDeg)}
                      nth[k \in 0..Cardinality(lit)] ==
                          IF k = 0 THEN 0
                          ELSE CHOOSE i \in lit :
                                 /\ i > nth[k - 1]
                                 /\ \A j \in lit : j > nth[k - 1] => i <= j
                  IN  [k \in 1..Cardinality(lit) |-> quad(nth[k])]

\* Adding polygons one by one until L.polygon raises.
AddInOrder(polys, rejectsNaN) ==
    LET bad == {k \in 1..Len(polys) : LPolygonRaises(polys[k], rejectsNaN)}
        stop == IF bad = {} THEN Len(polys) + 1
                ELSE CHOOSE k \in bad : \A j \in bad : k <= j
    IN  [added |-> {polys[k] : k \in 1..(stop - 1)}, raised |-> bad # {}]

\* drawStreets(lat, lon, hour): the polygons of the new street layer and
\* whether the call raised.
drawStreets(sd, lat, lon, hour, rejectsNaN) ==
    LET now == getDateForHour(hour)
        sunPos == SunCalcGetPosition(now, lat, lon)
        altDeg == sunPos.altitude
    IN  IF SunBelowHorizon(altDeg) THEN [added |-> {}, raised |-> FALSE]
        ELSE AddInOrder(
                 Flatten([w \in 1..Len(sd) |-> WayQuads(sd[w], w, azimuthDeg(sunPos))]),
                 rejectsNaN)

\* -------------------------------------------------------- drawBuildings
\* The footprint of building b, element index w (lines 96-105).
Footprint(b, w) ==
    LET footprint == [i \in 1..Len(b.geometry) |->
                         <<b.geometry[i].lon, b.geometry[i].lat>>]
    IN  Polygon([i \in 1..Len(footprint) |->
                    <<Plain(footprint[i][2]), Plain(footprint[i][1])>>],
                "#999", <<w, 0>>)

Drawable(b) == "geometry" \in DOMAIN b /\ Len(b.geometry) >= MinFootprint

\* drawBuildings(lat, lon, hour): the footprints added and the height
\* computed for each building that is drawn, by element index.
drawBuildings(bd, lat, lon, hour) ==
    LET now == getDateForHour(hour)
        sunPos == SunCalcGetPosition(now, lat, lon)
        alt == sunPos.altitude
        drawn == {w \in 1..Len(bd) : Drawable(bd[w])}
    IN  IF SunBelowHorizon(alt) THEN [added |-> {}, heights |-> <<>>]
        ELSE [added |-> {Footprint(bd[w], w) : w \in drawn},
              heights |-> [w \in drawn |-> HeightEstimate(bd[w])]]

\* ------------------------------------------------------------ responses
Way(tags, geometry) == [tags |-> tags, geometry |-> geometry]

NoGeometry(tags) == [tags |-> tags]

Highway(kind) == "highway" :> kind

Building(extra) == ("building" :> "yes") @@ extra

\* The element lists the feature service answers with.
Wellformed ==
    << Way(Highway("residential"), <<Pt(0, 0), Pt(1, 0)>>),
       Way(Highway("footway"), <<Pt(0, 0), Pt(1, 0)>>),
       Way(Building("building:levels" :> <<"4">>),
           <<Pt(0, 0), Pt(0, 1), Pt(1, 1)>>) >>

Coincident ==
    << Way(Highway("primary"), <<Pt(0, 1), Pt(0, 1), Pt(1, 1)>>),
       Way(Highway("secondary"), <<Pt(1, 0), Pt(0, 0)>>),
       Way(Building("building:height" :> <<"1", "4">>),
           <<Pt(0, 0), Pt(0, 1), Pt(1, 1), Pt(1, 0)>>) >>

Degenerate ==
    << Way(Highway("residential"), <<Pt(0, 0)>>),
       NoGeometry(Highway("tertiary")),
       Way(Building(<<>>), <<Pt(0, 0), Pt(0, 1)>>),
       Way(Highway("tertiary"), <<Pt(0, 0), Pt(0, 1)>>),
       Way(Building(<<>>), <<Pt(1, 0), Pt(0, 1), Pt(1, 1)>>) >>

Unlocated ==
    << Way(Highway("residential"), <<Pt(1, 1), Pt(0, 0)>>),
       NoGeometry(Building(<<>>)) >>

Responses == {Wellformed, Coincident, Degenerate, Unlocated}

\* elements.filter(e => e.tags && e.tags.highway)
FilterStreets(elements) ==
    SelectSeq(elements, LAMBDA e : "tags" \in DOMAIN e /\ Truthy(e.tags, "highway"))

\* e.tags && e.tags.building && e.geometry.length >= 3 reads the length
\* of an absent geometry and raises a TypeError.
BuildingTestRaises(e) ==
    /\ "tags" \in DOMAIN e
    /\ Truthy(e.tags, "building")
    /\ "geometry" \notin DOMAIN e

FilterBuildingsRaises(elements) ==
    \E i \in 1..Len(elements) : BuildingTestRaises(elements[i])

\* elements.filter(e => e.tags && e.tags.building && e.geometry.length >= 3)
FilterBuildings(elements) ==
    SelectSeq(elements, LAMBDA e : /\ "tags" \in DOMAIN e
                                   /\ Truthy(e.tags, "building")
                                   /\ Len(e.geometry) >= MinFootprint)

\* ---------------------------------------------------------------- state
VARIABLES
    streetData,     \* let streetData
    buildingData,   \* let buildingData
    streetLayer,    \* let streetLayer
    buildingLayer,  \* let buildingLayer
    shadowLayer,    \* let shadowLayer
    detached,       \* polygons of layer groups on the map no variable refers to
    inflight,       \* the updateData calls suspended at await fetchData
    issued,         \* how many requests have been issued
    initMap,        \* where initMap is: "awaiting", "listening" or "rejected"
    slider,         \* the value of #timeSlider
    label,          \* the text of #timeLabel
    center,         \* map.getCenter()
    rejectsNaN,     \* whether the page's Leaflet raises on a NaN corner
    streetSeq,      \* the request whose response streetData is from
    buildingSeq,    \* the request whose response buildingData is from
    heights,        \* the height locals of the last drawBuildings
    lastPass,       \* what the last step's updateScene call, if any, did
    lastUpdate      \* how the last step's updateData continuation, if any, ended

vars == <<streetData, buildingData, streetLayer, buildingLayer, shadowLayer,
          detached, inflight, issued, initMap, slider, label, center,
          rejectsNaN, streetSeq, buildingSeq, heights, lastPass, lastUpdate>>

layers == <<streetLayer, buildingLayer, shadowLayer, detached>>

\* The polygons shown on the map.
Visible ==
    streetLayer.polys \cup buildingLayer.polys \cup shadowLayer.polys \cup detached

\* The text #timeLabel has in the page, before any input event.
PageText == [utcHour |-> -1]

NoPass == [ran |-> FALSE, by |-> "none", lat |-> "", lon |-> "", hour |-> 0,
           raised |-> FALSE, drawn |-> {}, before |-> 0]

NoUpdate == [ended |-> FALSE, elements |-> <<>>, raised |-> FALSE]

UpdateEnded(elements, raised) ==
    [ended |-> TRUE, elements |-> elements, raised |-> raised]

Request(seq, lat, lon, hour) == [seq |-> seq, lat |-> lat, lon |-> lon, hour |-> hour]

\* ----------------------------------------------------------- updateScene
\* updateScene(lat, lon, hour) on the state as it is after the step's
\* assignments to the data: drawStreets, then drawBuildings unless
\* drawStreets raised.
updateScene(sd, bd, lat, lon, hour, by) ==
    LET st == drawStreets(sd, lat, lon, hour, rejectsNaN)
        bl == drawBuildings(bd, lat, lon, hour)
    IN  /\ streetLayer' = LayerGroup(st.added)
        /\ IF st.raised
           THEN /\ detached' = detached \cup Abandon(streetLayer)
                /\ UNCHANGED <<buildingLayer, shadowLayer, heights>>
           ELSE /\ detached' = detached \cup Abandon(streetLayer)
                               \cup Abandon(buildingLayer) \cup Abandon(shadowLayer)
                /\ buildingLayer' = LayerGroup(bl.added)
                /\ shadowLayer' = LayerGroup({})
                /\ heights' = bl.heights
        /\ lastPass' = [ran |-> TRUE, by |-> by, lat |-> lat, lon |-> lon,
                        hour |-> hour, raised |-> st.raised,
                        drawn |-> st.added \cup (IF st.raised THEN {} ELSE bl.added),
                        before |-> Cardinality(Visible)]

NoScene == /\ UNCHANGED <<layers, heights>>
           /\ lastPass' = NoPass

\* ---------------------------------------------------------------- Init
\* initMap has set the view on Paris and is suspended in its first
\* updateData(lat, lon, 12); no listener is registered yet.
Init ==
    /\ streetData = <<>>
    /\ buildingData = <<>>
    /\ streetLayer = Undefined
    /\ buildingLayer = Undefined
    /\ shadowLayer = Undefined
    /\ detached = {}
    /\ inflight = {Request(1, Paris.lat, Paris.lng, InitialHour)}
    /\ issued = 1
    /\ initMap = "awaiting"
    /\ slider \in SliderStops
    /\ label = PageText
    /\ center = Paris
    /\ rejectsNaN \in BOOLEAN
    /\ streetSeq = 0
    /\ buildingSeq = 0
    /\ heights = <<>>
    /\ lastPass = NoPass
    /\ lastUpdate = NoUpdate

\* --------------------------------------------------------------- actions
\* What the end of an updateData means for initMap: the first one is
\* awaited by initMap, which registers the listeners when it returns and
\* is rejected when it raises.
AfterUpdateData(req, raised) ==
    initMap' = IF initMap = "awaiting" /\ req.seq = 1
               THEN (IF raised THEN "rejected" ELSE "listening")
               ELSE initMap

SceneHourAtCompletion(req) == slider

\* The hour updateData passes on to updateScene: its own parameter, the
\* value the caller read before the fetch.
SceneHour(req) == req.hour

\* The fetch of req answers with `elements`: updateData resumes (lines
\* 131-133).
FetchResolves(req, elements) ==
    /\ req \in inflight
    /\ inflight' = inflight \ {req}
    /\ streetData' = FilterStreets(elements)
    /\ streetSeq' = req.seq
    /\ IF FilterBuildingsRaises(elements)
       THEN /\ UNCHANGED <<buildingData, buildingSeq>>
            /\ NoScene
            /\ AfterUpdateData(req, TRUE)
            /\ lastUpdate' = UpdateEnded(elements, TRUE)
       ELSE /\ buildingData' = FilterBuildings(elements)
            /\ buildingSeq' = req.seq
            /\ updateScene(streetData', buildingData', req.lat, req.lon,
                           SceneHour(req), "updateData")
            /\ AfterUpdateData(req, lastPass'.raised)
            /\ lastUpdate' = UpdateEnded(elements, lastPass'.raised)
    /\ UNCHANGED <<issued, slider, label, center, rejectsNaN>>

\* The fetch of req fails, or its body is no JSON with an elements list:
\* updateData raises before it assigns anything.
FetchRejects(req) ==
    /\ req \in inflight
    /\ inflight' = inflight \ {req}
    /\ AfterUpdateData(req, TRUE)
    /\ NoScene
    /\ lastUpdate' = NoUpdate
    /\ UNCHANGED <<streetData, buildingData, streetSeq, buildingSeq, issued,
                   slider, label, center, rejectsNaN>>

\* map.on("click"): read the slider, call updateData, suspend at the fetch.
Click(latlng) ==
    /\ initMap = "listening"
    /\ issued < MaxFetches
    /\ issued' = issued + 1
    /\ inflight' = inflight \cup {Request(issued + 1, latlng.lat, latlng.lng, slider)}
    /\ NoScene
    /\ lastUpdate' = NoUpdate
    /\ UNCHANGED <<streetData, buildingData, streetSeq, buildingSeq, initMap,
                   slider, label, center, rejectsNaN>>

SliderInputRefetch(hour) ==
    /\ slider' = hour
    /\ initMap = "listening"
    /\ issued < MaxFetches
    /\ issued' = issued + 1
    /\ inflight' = inflight \cup {Request(issued + 1, center.lat, center.lng, hour)}
    /\ label' = getDateForHour(hour)
    /\ NoScene
    /\ lastUpdate' = NoUpdate
    /\ UNCHANGED <<streetData, buildingData, streetSeq, buildingSeq, initMap,
                   center, rejectsNaN>>

\* The user moves the slider to `hour`; the input listener, once
\* registered, sets the label and redraws (lines 162-167).
SliderInput(hour) ==
    /\ slider' = hour
    /\ IF initMap = "listening"
       THEN /\ label' = getDateForHour(hour)
            /\ updateScene(streetData, buildingData, center.lat, center.lng,
                           hour, "slider")
       ELSE /\ UNCHANGED label
            /\ NoScene
    /\ lastUpdate' = NoUpdate
    /\ UNCHANGED <<streetData, buildingData, streetSeq, buildingSeq, inflight,
                   issued, initMap, center, rejectsNaN>>

\* The user drags the map: its centre moves.
MoveMap(latlng) ==
    /\ center # latlng
    /\ center' = latlng
    /\ NoScene
    /\ lastUpdate' = NoUpdate
    /\ UNCHANGED <<streetData, buildingData, streetSeq, buildingSeq, inflight,
                   issued, initMap, slider, label, rejectsNaN>>

Next ==
    \/ \E req \in inflight : \E elements \in Responses : FetchResolves(req, elements)
    \/ \E req \in inflight : FetchRejects(req)
    \/ \E latlng \in ClickPoints : Click(latlng)
    \/ \E hour \in SliderStops : SliderInput(hour)
    \/ \E latlng \in ClickPoints : MoveMap(latlng)

Spec == Init /\ [][Next]_vars

\* ------------------------------------------------- the scene on its own
\* The page after load with the slider and the map only, over every road
\* of up to three grid points.
SeqsUpTo(S, n) == UNION {[1..k -> S] : k \in 0..n}

RoadKinds == {"primary", "residential", "footway"}

SceneWays ==
    {Way(Highway(kind), geometry) :
        kind \in RoadKinds, geometry \in SeqsUpTo(GridPoints, MaxRoadLen)}
    \cup {NoGeometry(Highway(kind)) : kind \in RoadKinds}

SceneResponses == {<<way, Wellformed[3]>> : way \in SceneWays}

SceneNext ==
    \/ \E req \in inflight : \E elements \in SceneResponses : FetchResolves(req, elements)
    \/ \E hour \in Hours : SliderInput(hour)
    \/ \E latlng \in LatLngs : MoveMap(latlng)

SpecScene == Init /\ [][SceneNext]_vars

\* ----------------------------------------------- the heights on their own
\* The page's first updateData over every tagging of one building.
TagValues == SeqsUpTo(Chars, MaxTagLen)

HeightTags ==
    {<<>>} \cup {"building:height" :> v : v \in TagValues}

LevelTags ==
    {<<>>} \cup {"building:levels" :> v : v \in TagValues}

TaggedBuildings ==
    {<<Way(Building(h @@ l), Wellformed[3].geometry)>> :
        h \in HeightTags, l \in LevelTags}

InitHeights == Init /\ slider = InitialHour /\ ~rejectsNaN

HeightsNext ==
    \E req \in inflight : \E elements \in TaggedBuildings : FetchResolves(req, elements)

SpecHeights == InitHeights /\ [][HeightsNext]_vars

\* ============================================================== claims
\* The sun position updateScene's last call composed its scene for.
PassSun == SunCalcGetPosition(getDateForHour(lastPass.hour), lastPass.lat, lastPass.lon)

\* C1: last-fetch-wins.  The response of an earlier-issued request is
\* never installed into streetData or buildingData after the response of
\* a later-issued request has been installed.
C1_LastFetchWins ==
    [][streetSeq' >= streetSeq /\ buildingSeq' >= buildingSeq]_vars

\* C2: the feature cache is never half-updated.  In every state in which
\* a handler can start, streetData and buildingData are from the same
\* fetch response, also after an updateData that ended in an exception.
C2_CacheNeverHalfUpdated == streetSeq = buildingSeq

\* C3: full replace of the scene.  After every updateScene the polygons
\* on the map are exactly those that pass drew; none of an earlier pass
\* remains visible.
C3_FullReplace == lastPass.ran => Visible = lastPass.drawn

\* Whether a response holds malformed geometry: a road with fewer than 2
\* points, or a building with fewer than 3 points or with no point
\* sequence at all.
IsRoad(e) == "tags" \in DOMAIN e /\ Truthy(e.tags, "highway")

IsBuilding(e) == "tags" \in DOMAIN e /\ Truthy(e.tags, "building")

Malformed(e) ==
    \/ IsRoad(e) /\ "geometry" \in DOMAIN e /\ Len(e.geometry) < MinRoadPoints
    \/ IsBuilding(e) /\ "geometry" \in DOMAIN e /\ Len(e.geometry) < MinFootprint
    \/ IsBuilding(e) /\ "geometry" \notin DOMAIN e

HasMalformed(elements) == \E i \in 1..Len(elements) : Malformed(elements[i])

\* C7: malformed geometry is skipped and never fatal.  For a response
\* with a malformed feature, updateData completes without raising,
\* installs both feature sets, draws the scene, and the scene holds no
\* polygon of a malformed feature.
C7_MalformedNeverFatal ==
    (lastUpdate.ended /\ HasMalformed(lastUpdate.elements)) =>
        /\ ~lastUpdate.raised
        /\ streetData = FilterStreets(lastUpdate.elements)
        /\ lastPass.ran
        /\ \A poly \in Visible :
              /\ poly.fillColor = "gold" => ~Malformed(streetData[poly.of[1]])
              /\ poly.fillColor = "#999" => ~Malformed(buildingData[poly.of[1]])

\* Every polygon the cached features can give rise to, whatever the sun.
QuadsOf(sd) ==
    UNION {{Polygon(LitQuad(<<sd[w].geometry[i].lat, sd[w].geometry[i].lon>>,
                            <<sd[w].geometry[i + 1].lat, sd[w].geometry[i + 1].lon>>),
                    "gold", <<w, i>>) : i \in 1..(Len(sd[w].geometry) - 1)} :
           w \in {v \in 1..Len(sd) : "geometry" \in DOMAIN sd[v]}}

FootprintsOf(bd) ==
    {Polygon([i \in 1..Len(bd[w].geometry) |->
                 <<Plain(bd[w].geometry[i].lat), Plain(bd[w].geometry[i].lon)>>],
             "#999", <<w, 0>>) :
        w \in {v \in 1..Len(bd) : "geometry" \in DOMAIN bd[v]}}

C10_SceneUsesClickTimeHour ==
    [][/\ \A req \in inflight' \ inflight :
             req.hour = slider /\ req.seq = issued'
       /\ \A req \in inflight \ inflight' :
             lastPass'.ran =>
                /\ lastPass'.by = "updateData"
                /\ lastPass'.hour = req.hour
                /\ lastPass'.lat = req.lat /\ lastPass'.lon = req.lon
       /\ (lastPass'.ran /\ lastPass'.by = "slider") =>
             /\ lastPass'.lat = center.lat /\ lastPass'.lon = center.lng
             /\ streetData' = streetData /\ buildingData' = buildingData]_vars

\* A click's fetch has completed and drawn a scene for an hour that is
\* not the slider's, at a point that is not the map centre.
C10_Witness ==
    /\ lastPass.ran /\ lastPass.by = "updateData"
    /\ streetSeq > 1
    /\ lastPass.hour # slider
    /\ lastPass.lat # center.lat
    /\ lastPass.drawn # {}

\* C4: sun at or below the horizon.  A pass composed for a sun altitude
\* <= 0 draws nothing, whatever the roads and buildings are, and clears
\* the polygons of the pass before it.
C4_BelowHorizonEmpty ==
    (lastPass.ran /\ PassSun.altitude <= 0) =>
        /\ lastPass.drawn = {}
        /\ ~lastPass.raised
        /\ Visible = {}

\* A pass for a sun on or under the horizon has run over a main road and
\* a building while polygons of the pass before were on the map.
C4_Witness ==
    /\ lastPass.ran /\ PassSun.altitude <= 0
    /\ lastPass.before > 0
    /\ buildingData # <<>>
    /\ \E w \in 1..Len(streetData) :
          /\ streetData[w].tags["highway"] \in MainRoads
          /\ "geometry" \in DOMAIN streetData[w]
          /\ Len(streetData[w].geometry) >= MinRoadPoints

\* The circular distance between two directions in degrees.
CircularDistance(a, b) ==
    LET turns == {Abs(a - b + k * FullTurn) : k \in -1..1}
    IN  CHOOSE d \in turns : \A e \in turns : d <= e

Emitted(w, i) == \E poly \in streetLayer.polys : poly.of = <<w, i>>

\* C5: with the sun above the horizon, a consecutive point pair of
\* non-zero length of a road with at least 2 points gets a lit quad if
\* and only if the road is primary, secondary, tertiary or residential
\* and the circular distance between the pair's bearing and azimuthDeg
\* is strictly less than 20 degrees.
C5_LitIffFacingSun ==
    (lastPass.ran /\ PassSun.altitude > 0) =>
        \A w \in 1..Len(streetData) :
            ("geometry" \in DOMAIN streetData[w] /\ Len(streetData[w].geometry) >= 2) =>
                \A i \in 1..(Len(streetData[w].geometry) - 1) :
                    LET p1 == streetData[w].geometry[i]
                        p2 == streetData[w].geometry[i + 1]
                    IN  p1 # p2 =>
                          (Emitted(w, i) <=>
                             /\ streetData[w].tags["highway"] \in
                                   {"primary", "secondary", "tertiary", "residential"}
                             /\ CircularDistance(Bearing(<<p1.lat, p1.lon>>, <<p2.lat, p2.lon>>),
                                                 azimuthDeg(PassSun)) < 20)

\* C6: a zero-length sub-segment never produces a lit quad: it is skipped
\* before the division by the segment length, so the pass goes on and no
\* quad with a non-finite corner is ever added to the street layer.
C6_ZeroLengthSkipped ==
    /\ ~lastPass.raised
    /\ \A poly \in streetLayer.polys : IsFinitePolygon(poly)
    /\ lastPass.ran =>
          \A poly \in streetLayer.polys :
              streetData[poly.of[1]].geometry[poly.of[2]]
                 # streetData[poly.of[1]].geometry[poly.of[2] + 1]

\* ------------------------------------------------------------ C9
NumEq(a, b) == a.nan = b.nan /\ (~a.nan => a.num * b.den = b.num * a.den)

RECURSIVE ValueOf(_)
ValueOf(ds) ==
    IF ds = <<>> THEN 0
    ELSE DigitVal(Head(ds)) * Pow10(Len(ds) - 1) + ValueOf(Tail(ds))

Points(t) == {i \in 1..Len(t) : t[i] = "."}

\* Digits with at most one point among them: 4, 14., .4, 1.4
IsDecimalNumeral(t) ==
    /\ \A i \in 1..Len(t) : t[i] \in Digits \cup {"."}
    /\ Cardinality(Points(t)) <= 1
    /\ \E i \in 1..Len(t) : t[i] \in Digits

IsInteger(t) == t # <<>> /\ \A i \in 1..Len(t) : t[i] \in Digits

DecimalValue(t) ==
    LET digits == SelectSeq(t, LAMBDA c : c \in Digits)
        after == IF Points(t) = {} THEN 0
                 ELSE Len(t) - (CHOOSE i \in Points(t) : TRUE)
    IN  Num(ValueOf(digits), Pow10(after))

\* The value of the longest prefix of s that is a numeral, NaN if none.
Leading(s, IsNumeral(_)) ==
    LET ks == {k \in 1..Len(s) : IsNumeral(SubSeq(s, 1, k))}
    IN  IF ks = {} THEN NaN
        ELSE DecimalValue(SubSeq(s, 1, CHOOSE k \in ks : \A j \in ks : j <= k))

HeightsComputed == lastPass.ran /\ ~lastPass.raised /\ PassSun.altitude > 0

\* C9 as stated: the building:height tag, if present, gives the height
\* whether or not building:levels is present; otherwise building:levels,
\* if present, gives levels x 3; otherwise the height is 10.  (Read on
\* the buildings whose tags are numerals.)
C9_HeightPriorityAsStated ==
    HeightsComputed =>
        \A w \in DOMAIN heights :
            LET t == buildingData[w].tags
                numerals == \A k \in {"building:height", "building:levels"} \cap DOMAIN t :
                                IsDecimalNumeral(t[k])
            IN  numerals =>
                  IF "building:height" \in DOMAIN t
                  THEN NumEq(heights[w], DecimalValue(t["building:height"]))
                  ELSE IF "building:levels" \in DOMAIN t
                  THEN NumEq(heights[w], Times(DecimalValue(t["building:levels"]), 3))
                  ELSE NumEq(heights[w], Num(10, 1))

\* C9 as amended: a non-empty building:height tag gives the height, the
\* number its longest numeral prefix denotes (NaN if it has none),
\* whether or not building:levels is present; otherwise a non-empty
\* building:levels tag gives 3 x the integer its leading digits denote
\* (the fraction dropped, NaN if it has none); otherwise the height is 10.
C9_HeightPriority ==
    HeightsComputed =>
        \A w \in DOMAIN heights :
            LET t == buildingData[w].tags
                has(k) == k \in DOMAIN t /\ Len(t[k]) > 0
            IN  IF has("building:height")
                THEN NumEq(heights[w], Leading(t["building:height"], IsDecimalNumeral))
                ELSE IF has("building:levels")
                THEN NumEq(heights[w], Times(Leading(t["building:levels"], IsInteger), 3))
                ELSE NumEq(heights[w], Num(10, 1))

\* A height has been computed for a building that carries both tags, and
\* it is the explicit height, not three times the levels.
C9_Witness ==
    /\ HeightsComputed
    /\ \E w \in DOMAIN heights :
          LET t == buildingData[w].tags
          IN  /\ {"building:height", "building:levels"} \subseteq DOMAIN t
              /\ IsDecimalNumeral(t["building:height"])
              /\ IsInteger(t["building:levels"])
              /\ NumEq(heights[w], DecimalValue(t["building:height"]))
              /\ ~NumEq(heights[w], Times(DecimalValue(t["building:levels"]), 3))
====
